---- MODULE Spec2Model ----
(***************************************************************************)
(* Job-offer capture pipeline of the AutoGrid browser extension.           *)
(*                                                                         *)
(* src/extension/Data/DataShareService.js holds two builds of saveJobOffer *)
(* (lines 32-72: one consolidated /jobs/workflow call; lines 264-366: the  *)
(* staged pre-parse / AI parse / save pipeline with a fallback save).      *)
(* The popup handlers are src/unnamed/part_013 (home popup) and            *)
(* src/extension/home/home_without_auth.js; the keyboard shortcut handler  *)
(* is src/extension/auth/login.js.  The backend is not part of the sources *)
(* at hand: what it stores for an accepted save request is modelled from   *)
(* the specification (BackendRecord).                                      *)
(***************************************************************************)
EXTENDS Integers, Sequences, FiniteSets, TLC

\* ------------------------------------------------------------------ bounds
MaxCaptures == 2

\* URLs given to the portal classifier are built from at most MaxPieces pieces
MaxPieces == 2

\* calls of showMessage in one life of a popup page
MaxMessages == 3

\* elements of a page given to extractMainContentBlock
MaxElements == 2

Captures == 1..MaxCaptures

\* ------------------------------------------------------------- value sets
NoToken == "<none>"
Tokens == {"tk1"}

Undef == "<undefined>"
Absent == "<absent>"

\* pages a browser tab can show: url and title as chrome.tabs reports them
Pages == { [url |-> "https://www.linkedin.com/jobs/view/123", title |-> "Engineer at Acme"],
           [url |-> "https://obscure-startup.example.com/careers/42", title |-> Undef] }

\* the active tab: <<>> when chrome.tabs.query yields no tab, else <<page>>
TabStates == {<<>>} \cup { <<p>> : p \in Pages }

NoHtml == [kind |-> "none", of |-> ""]
NullHtml == [kind |-> "null", of |-> ""]

\* responses a fetch can produce.  status "network" is a rejected fetch;
\* readable tells whether response.json() resolves.
Responses ==
  { [status |-> "ok", readable |-> TRUE, detail |-> ""],
    [status |-> "ok", readable |-> FALSE, detail |-> ""],
    [status |-> "error", readable |-> TRUE, detail |-> "Server says no"],
    [status |-> "error", readable |-> TRUE, detail |-> ""],
    [status |-> "error", readable |-> FALSE, detail |-> ""],
    [status |-> "unauthorized", readable |-> TRUE, detail |-> "Invalid token"],
    [status |-> "network", readable |-> FALSE, detail |-> ""] }

\* bodies of successful responses
PreParsedBodies == { [parsed_text |-> "parsed text", title |-> "Parsed title"] }

EnhancedBodies ==
  { [job_title |-> "Engineer", company |-> "Acme", location |-> Absent,
     job_type |-> "Full-Time", description |-> Absent] }

ScriptOutcomes == {"lastError", "empty", "null", "result"}

\* ------------------------------------------------------ portal classifier
\* text as the sequence of its characters
UpperCaseLetters ==
  <<"A", "B", "C", "D", "E", "F", "G", "H", "I", "J", "K", "L", "M", "N", "O", "P", "Q", "R", "S", "T", "U", "V", "W", "X", "Y", "Z">>

LowerCaseLetters ==
  <<"a", "b", "c", "d", "e", "f", "g", "h", "i", "j", "k", "l", "m", "n", "o", "p", "q", "r", "s", "t", "u", "v", "w", "x", "y", "z">>

\* String.prototype.toLowerCase, character by character
toLowerCase(s) ==
  [i \in 1..Len(s) |->
     IF \E n \in 1..26 : UpperCaseLetters[n] = s[i]
     THEN LowerCaseLetters[CHOOSE n \in 1..26 : UpperCaseLetters[n] = s[i]]
     ELSE s[i]]

\* String.prototype.indexOf: the first position (from 0) at which f
\* occurs in s, -1 when there is none
RECURSIVE indexOfFrom(_, _, _)
indexOfFrom(s, f, i) ==
  IF i + Len(f) > Len(s) THEN -1
  ELSE IF SubSeq(s, i + 1, i + Len(f)) = f THEN i
  ELSE indexOfFrom(s, f, i + 1)

includes(s, f) == indexOfFrom(s, f, 0) # -1

\* the first fragment is kept in its brand spelling
KNOWN_PORTALS_BrandCase ==
  << <<"L", "i", "n", "k", "e", "d", "I", "n">>,
     <<"i", "n", "d", "e", "e", "d">>,
     <<"g", "l", "a", "s", "s", "d", "o", "o", "r">>,
     <<"m", "o", "n", "s", "t", "e", "r">>,
     <<"z", "i", "p", "r", "e", "c", "r", "u", "i", "t", "e", "r">> >>

KNOWN_PORTALS ==
  << <<"l", "i", "n", "k", "e", "d", "i", "n">>,
     <<"i", "n", "d", "e", "e", "d">>,
     <<"g", "l", "a", "s", "s", "d", "o", "o", "r">>,
     <<"m", "o", "n", "s", "t", "e", "r">>,
     <<"z", "i", "p", "r", "e", "c", "r", "u", "i", "t", "e", "r">> >>

\* the fragments are tried in list order; the first hit decides
RECURSIVE classifyFrom(_, _)
classifyFrom(lower, n) ==
  IF n > Len(KNOWN_PORTALS) THEN "Unknown"
  ELSE IF includes(lower, KNOWN_PORTALS[n]) THEN "Known"
  ELSE classifyFrom(lower, n + 1)

classify(url) == classifyFrom(toLowerCase(url), 1)

\* pieces of URL text, chosen so that fragments occur whole, in other
\* letter case, split over two pieces, and not at all
UrlPieces ==
  { <<"l", "i", "n", "k", "e", "d", "i", "n">>,
    <<"L", "i", "n", "k", "e", "d", "I", "n">>,
    <<"I", "N", "D", "E", "E", "D">>,
    <<"i", "n", "d", "e", "e">>,
    <<"d">>,
    <<"g", "l", "a", "s", "s", "d", "o", "o", "r">>,
    <<"M", "o", "n", "s", "t", "e", "r">>,
    <<"z", "i", "p">>,
    <<"r", "e", "c", "r", "u", "i", "t", "e", "r">>,
    <<"Z", "i", "p", "R", "e", "c", "r", "u", "i", "t", "e", "r">>,
    <<"e", "x", "a", "m", "p", "l", "e">>,
    <<".", "c", "o", "m", "/", "j", "o", "b", "s">>,
    <<"l", "i", "n", "k", "e", "d">>,
    <<"i", "n">> }

RECURSIVE UrlsOf(_)
UrlsOf(n) ==
  IF n = 0 THEN {<<>>}
  ELSE UrlsOf(n - 1) \cup { u \o p : u \in UrlsOf(n - 1), p \in UrlPieces }

Urls == UrlsOf(MaxPieces)

\* the characters of the URLs the tabs of Pages show
CharsOf(u) ==
  CASE u = "https://www.linkedin.com/jobs/view/123" ->
         <<"h", "t", "t", "p", "s", ":", "/", "/", "w", "w", "w", ".", "l", "i", "n", "k", "e", "d", "i", "n", ".", "c", "o", "m", "/", "j", "o", "b", "s", "/", "v", "i", "e", "w", "/", "1", "2", "3">>
    [] u = "https://obscure-startup.example.com/careers/42" ->
         <<"h", "t", "t", "p", "s", ":", "/", "/", "o", "b", "s", "c", "u", "r", "e", "-", "s", "t", "a", "r", "t", "u", "p", ".", "e", "x", "a", "m", "p", "l", "e", ".", "c", "o", "m", "/", "c", "a", "r", "e", "e", "r", "s", "/", "4", "2">>
    [] OTHER -> <<>>

NoPortal == [url |-> <<>>, kind |-> "none"]

\* ------------------------------------------------ extractMainContentBlock
\* a page is the sequence of its elements in document order; an element
\* has a tag, the class or id selector it answers to ("" for none) and the
\* length of its trimmed textContent.  The result is the position of the
\* element whose outerHTML is returned, 0 for document.body.
jobContentSelectors ==
  << ".job-description", "#job-description", ".jobsearch-jobDescriptionText",
     ".description__text", ".job-details", ".job-content", ".job-details-content",
     ".job-overview", ".job-posting", ".job-listing",
     "article", "main", ".content-main", ".main-content",
     ".content", "#content", ".container" >>

Elements ==
  [ tag : {"div", "article", "main", "span"},
    mark : {"", ".job-details", ".container"},
    len : {200, 201, 300, 301, 400} ]

Documents == UNION { [1..n -> Elements] : n \in 0..MaxElements }

Matches(e, selector) == e.tag = selector \/ e.mark = selector

\* document.querySelector: the first match in document order, 0 for null
RECURSIVE querySelectorFrom(_, _, _)
querySelectorFrom(els, selector, i) ==
  IF i > Len(els) THEN 0
  ELSE IF Matches(els[i], selector) THEN i
  ELSE querySelectorFrom(els, selector, i + 1)

querySelector(els, selector) == querySelectorFrom(els, selector, 1)

\* the loop over jobContentSelectors, from the n-th selector on
RECURSIVE BySelector(_, _)
BySelector(els, n) ==
  IF n > Len(jobContentSelectors) THEN 0
  ELSE LET element == querySelector(els, jobContentSelectors[n]) IN
       IF element # 0 /\ els[element].len > 200 THEN element
       ELSE BySelector(els, n + 1)

\* a block as long as the longest so far replaces it
Longer_OrEqual(textLength, maxTextLength) ==
  textLength >= maxTextLength /\ textLength > 300

Longer(textLength, maxTextLength) ==
  textLength > maxTextLength /\ textLength > 300

\* the forEach over querySelectorAll("div, section, article"), from the
\* i-th element on, with mainContent and maxTextLength as they stand
RECURSIVE LargestBlock(_, _, _, _)
LargestBlock(els, i, mainContent, maxTextLength) ==
  IF i > Len(els) THEN mainContent
  ELSE IF /\ els[i].tag \in {"div", "section", "article"}
          /\ Longer(els[i].len, maxTextLength)
       THEN LargestBlock(els, i + 1, i, els[i].len)
       ELSE LargestBlock(els, i + 1, mainContent, maxTextLength)

extractMainContentBlock(els) ==
  LET mainContent == BySelector(els, 1) IN
  IF mainContent # 0 THEN mainContent ELSE LargestBlock(els, 1, 0, 0)

NoDoc == [els |-> <<>>, result |-> <<>>]

\* ---------------------------------------------------------- notifications
NoNotes == [variant |-> "none", els |-> <<>>, timers |-> {}]

VARIABLES
  impl,        \* which build of saveJobOffer is loaded: "staged" or "workflow"
  token,       \* localStorage["autogrid_token"]
  activeTab,   \* the browser's active tab
  btnDisabled, \* saveBtn.disabled of the home popup
  btnText,     \* saveBtn.textContent of the home popup
  cap,         \* per capture: handler position, locals and history
  jobs,        \* JobRecords stored by the backend, in creation order
  portal,      \* the portal classifier's argument and result
  notes,       \* the popup page's message elements and their pending timers
  doc          \* the page extractMainContentBlock runs in, and what it returned

vars == <<impl, token, activeTab, btnDisabled, btnText, cap, jobs, portal, notes, doc>>

IdleCapture ==
  [ pc |-> "idle", handler |-> "none", title |-> "", url |-> "",
    token |-> NoToken, tab |-> <<>>, html |-> NoHtml,
    parsed |-> <<>>, enhanced |-> <<>>,
    state |-> "Idle", reqs |-> <<>>, failed |-> "none",
    extracted |-> FALSE, hadToken |-> FALSE,
    outcome |-> "none", err |-> "", msgs |-> <<>>,
    redirected |-> FALSE, alerted |-> FALSE ]

Init ==
  /\ impl \in {"staged", "workflow"}
  /\ token \in Tokens
  /\ activeTab \in TabStates
  /\ btnDisabled = FALSE
  /\ btnText = "Save offer"
  /\ cap = [c \in Captures |-> IdleCapture]
  /\ jobs = <<>>
  /\ portal = NoPortal
  /\ notes = NoNotes
  /\ doc = NoDoc

\* ------------------------------------------------------- pure helpers
\* activeTab.title || ""  /  activeTab.url || ""
OrEmpty(v) == IF v = Undef THEN "" ELSE v

\* response.ok and a body that response.json() can read
Success(r) == r.status = "ok" /\ r.readable

\* message of the error a stage throws for a response that is no success:
\* a rejected fetch, a body json() cannot read, or error.detail || default
StageError(r, default) ==
  IF r.status = "network" THEN "Failed to fetch"
  ELSE IF ~r.readable THEN "Unexpected token in JSON"
  ELSE IF r.detail # "" THEN r.detail ELSE default

\* the html the injected function returns for a page
ExtractedHtml(build, page) ==
  IF build = "staged" THEN [kind |-> "block", of |-> page.url]
                      ELSE [kind |-> "full", of |-> page.url]

\* how the code sees a response: "success" (2xx, body read), "unreadable"
\* (2xx, json() rejects), "unauthorized" (401), "failure" (anything else)
Class(r) ==
  IF Success(r) THEN "success"
  ELSE IF r.status = "ok" THEN "unreadable"
  ELSE IF r.status = "unauthorized" THEN "unauthorized"
  ELSE "failure"

\* a request as fetch sends it; resp records the response once it arrived
Request(k, stage, ep, body) ==
  [stage |-> stage, ep |-> ep, auth |-> k.token, body |-> body, resp |-> "pending"]

\* the response r to the request in flight has arrived
Answer(k, r) == [k EXCEPT !.reqs[Len(k.reqs)].resp = Class(r)]

PreparseBody(k) == [title |-> k.title, url |-> k.url, html_content |-> k.html]

\* the enrichment request is fed the tab title, not the pre-parse result
AiBody_TabTitle(k) == [title |-> k.title, url |-> k.url, parsed_text |-> k.title]

AiBody(k) == [title |-> k.title, url |-> k.url, parsed_text |-> k.parsed[1].parsed_text]

\* the primary save forgets the enriched data
SaveBody_NoParsedData(k) == [title |-> k.title, url |-> k.url]

SaveBody(k) == [title |-> k.title, url |-> k.url, parsed_job_data |-> k.enhanced[1]]

\* the fallback save sends the URL in place of the title
FallbackBody_UrlAsTitle(k) == [title |-> k.url, url |-> k.url]

FallbackBody(k) == [title |-> k.title, url |-> k.url]

WorkflowBody(k) == [url |-> k.url, title |-> k.title, html_content |-> k.html]

\* ------------------------------------------------------------- backend
Field(v) == IF v = Absent THEN "" ELSE v

BestTitle(t) == IF t = "" THEN "No title available" ELSE t

\* the JobRecord the backend stores for an accepted save request
BackendRecord(body, c, stage) ==
  IF "parsed_job_data" \in DOMAIN body
  THEN [ position |-> Field(body.parsed_job_data.job_title),
         company |-> Field(body.parsed_job_data.company),
         location |-> Field(body.parsed_job_data.location),
         job_type |-> Field(body.parsed_job_data.job_type),
         status |-> "Saved",
         description |-> Field(body.parsed_job_data.description),
         link |-> body.url, notes |-> "", cap |-> c, via |-> stage ]
  ELSE [ position |-> BestTitle(body.title), company |-> "", location |-> "",
         job_type |-> "", status |-> "Saved", description |-> "",
         link |-> body.url, notes |-> "", cap |-> c, via |-> stage ]

\* a 2xx status means the endpoint did its work
BackendStore(r, body, c, stage) ==
  IF r.status = "ok" THEN Append(jobs, BackendRecord(body, c, stage)) ELSE jobs

\* ---------------------------------------------------- popup / handlers
ShowMessage(k, type) == [k EXCEPT !.msgs = Append(@, type)]

\* the handler's continuation after saveJobOffer resolved
HandlerSuccess(k) ==
  [ShowMessage(k, IF k.handler = "shortcut" THEN "notification" ELSE "success")
     EXCEPT !.pc = "done"]

\* the catch block reports the capture as saved
HandlerCatch_Success(k, e) ==
  IF k.handler = "home" /\ e.isError /\ e.message = "SESSION_EXPIRED"
  THEN [k EXCEPT !.redirected = TRUE, !.pc = "done"]
  ELSE [ShowMessage(k, IF k.handler = "shortcut" THEN "notification" ELSE "success")
          EXCEPT !.pc = "done"]

\* the handler's catch block; e is the rejection value
HandlerCatch(k, e) ==
  IF k.handler = "home" /\ e.isError /\ e.message = "SESSION_EXPIRED"
  THEN [k EXCEPT !.redirected = TRUE, !.pc = "done"]
  ELSE [ShowMessage(k, IF k.handler = "shortcut" THEN "notification" ELSE "error")
          EXCEPT !.pc = "done"]

\* saveJobOffer resolves / rejects; the awaiting handler runs on
Resolve(k) ==
  HandlerSuccess([k EXCEPT !.outcome = "resolved", !.state = "Done"])

Reject(k, e, st) ==
  HandlerCatch([k EXCEPT !.outcome = "rejected", !.state = st, !.err = e.message], e)

Err(m) == [isError |-> TRUE, message |-> m]
Str(m) == [isError |-> FALSE, message |-> m]

\* the button is re-enabled after saveJobOffer settled, not in a finally
\* block: the early return for a missing tab leaves it as it is
Settle_NoFinally(c, k) ==
  /\ cap' = [cap EXCEPT ![c] = k]
  /\ btnDisabled' = IF k.pc = "done" /\ k.handler = "home" /\ k.outcome # "none"
                    THEN FALSE ELSE btnDisabled
  /\ btnText' = IF k.pc = "done" /\ k.handler = "home" /\ k.outcome # "none"
                THEN "Save offer" ELSE btnText

\* capture c moves to k; the home popup's finally block re-enables the button
Settle(c, k) ==
  /\ cap' = [cap EXCEPT ![c] = k]
  /\ btnDisabled' = IF k.pc = "done" /\ k.handler = "home" THEN FALSE ELSE btnDisabled
  /\ btnText' = IF k.pc = "done" /\ k.handler = "home" THEN "Save offer" ELSE btnText

\* ---------------------------------------------------- saveJobOffer steps
\* the catch block gives up instead of sending the fallback save
ToFallback_GiveUp(k, stage) ==
  Reject([k EXCEPT !.failed = stage], Err("Error saving job offer"), "Failed")

\* catch block of the staged build: send the fallback save
ToFallback(k, stage) ==
  [k EXCEPT !.failed = stage, !.state = "FallbackSaving", !.pc = "fallback",
            !.reqs = Append(@, Request(k, "fallback", "/jobs/save", FallbackBody(k)))]

SendPreparse(k) ==
  [k EXCEPT !.state = "PreParsing", !.pc = "preparse",
            !.reqs = Append(@, Request(k, "preparse", "/jobs/preparse-job-offer", PreparseBody(k)))]

SendAi(k) ==
  [k EXCEPT !.state = "Enhancing", !.pc = "ai",
            !.reqs = Append(@, Request(k, "ai", "/jobs/parse-job-with-ai", AiBody(k)))]

\* the primary save is skipped when a record with this link already exists
SendSave_Dedup(k) ==
  IF \E i \in 1..Len(jobs) : jobs[i].link = k.url
  THEN Resolve(k)
  ELSE [k EXCEPT !.state = "Saving", !.pc = "save",
                 !.reqs = Append(@, Request(k, "save", "/jobs/save", SaveBody(k)))]

SendSave(k) ==
  [k EXCEPT !.state = "Saving", !.pc = "save",
            !.reqs = Append(@, Request(k, "save", "/jobs/save", SaveBody(k)))]

SendWorkflow(k) ==
  [k EXCEPT !.state = "Processing", !.pc = "workflow",
            !.reqs = Append(@, Request(k, "workflow", "/jobs/workflow", WorkflowBody(k)))]

\* the extraction promise rejects (with a string)
ExtractFail(k, text) ==
  IF impl = "staged" THEN ToFallback(k, "extract")
                     ELSE Reject([k EXCEPT !.failed = "extract"], Str(text), "Failed")

\* the extraction callback forgets to settle the promise
ExtractOk_NeverSettles(k, h) ==
  [k EXCEPT !.html = h, !.extracted = TRUE, !.tab = <<>>, !.pc = "unsettled"]

\* the extraction promise resolves with h
ExtractOk(k, h) ==
  LET k1 == [k EXCEPT !.html = h, !.extracted = TRUE, !.tab = <<>>] IN
  IF impl = "staged" THEN SendPreparse(k1)
  ELSE IF h = NullHtml
       THEN Reject([k EXCEPT !.failed = "extract", !.tab = <<>>],
                   Err("Failed to extract HTML content from the page"), "Failed")
       ELSE SendWorkflow(k1)

\* saveJobOffer goes on without a token
StartSave_NoTokenCheck(k) ==
  [k EXCEPT !.token = token, !.state = "Extracting", !.pc = "extractQuery"]

\* saveJobOffer up to its first await
StartSave(k) ==
  IF token = NoToken
  THEN Reject(k, Err("Not authenticated"), "Abandoned")
  ELSE [k EXCEPT !.token = token, !.state = "Extracting", !.pc = "extractQuery"]

\* ---------------------------------------------------------------- actions
\* the locals of a handler that has returned are gone; what is remembered
\* of a finished capture is how it ended and, when it ended in Done, its
\* CaptureRequest
Archive(k) ==
  IF k.pc # "done" THEN k
  ELSE IF k.state = "Done"
       THEN [IdleCapture EXCEPT !.pc = "archived", !.state = "Done",
                                !.title = k.title, !.url = k.url]
       ELSE [IdleCapture EXCEPT !.pc = "archived", !.state = k.state]

\* a click on the popup's save button (h = "home", "homeNoAuth"), or the
\* keyboard shortcut command (h = "shortcut")
Trigger(c, h) ==
  /\ cap[c].pc = "idle"
  /\ \A d \in Captures : d < c => cap[d].pc # "idle"
  /\ h = "home" => ~btnDisabled
  /\ LET k0 == [cap[c] EXCEPT !.handler = h, !.hadToken = token # NoToken]
         k  == IF h = "shortcut" THEN [k0 EXCEPT !.pc = "tabQuery"]
               ELSE IF token # NoToken
                    THEN IF h = "home"
                         THEN [ShowMessage(k0, "info") EXCEPT !.pc = "tabQuery"]
                         ELSE [k0 EXCEPT !.pc = "tabQuery"]
                    ELSE IF h = "home"
                         THEN [k0 EXCEPT !.redirected = TRUE, !.state = "Abandoned", !.pc = "done"]
                         ELSE [k0 EXCEPT !.alerted = TRUE, !.state = "Abandoned", !.pc = "done"]
     IN /\ cap' = [d \in Captures |-> IF d = c THEN k ELSE Archive(cap[d])]
        /\ btnDisabled' = IF h = "home" /\ token # NoToken THEN TRUE ELSE btnDisabled
        /\ btnText' = IF h = "home" /\ token # NoToken THEN "Processing..." ELSE btnText
  /\ UNCHANGED <<doc, portal, notes, impl, token, activeTab, jobs>>

\* the handler's chrome.tabs.query returns; title and url are read and
\* saveJobOffer is called
HandlerTabQuery(c) ==
  /\ cap[c].pc = "tabQuery"
  /\ LET k == cap[c] IN
     IF activeTab = <<>>
     THEN Settle(c, [ShowMessage(k, IF k.handler = "shortcut" THEN "notification" ELSE "error")
                       EXCEPT !.state = "Abandoned", !.pc = "done"])
     ELSE LET k1 == [k EXCEPT !.title = OrEmpty(activeTab[1].title),
                              !.url = OrEmpty(activeTab[1].url)]
              k2 == IF k.handler = "shortcut" THEN k1 ELSE ShowMessage(k1, "info")
          IN Settle(c, StartSave(k2))
  /\ UNCHANGED <<doc, portal, notes, impl, token, activeTab, jobs>>

\* chrome.tabs.query callback inside extractRelevantHTML / getActiveTabHTML
ExtractTabQuery(c) ==
  /\ cap[c].pc = "extractQuery"
  /\ LET k == cap[c] IN
     IF activeTab = <<>>
     THEN Settle(c, ExtractFail(k, "No active tab found"))
     ELSE Settle(c, [k EXCEPT !.tab = activeTab, !.pc = "extractScript"])
  /\ UNCHANGED <<doc, portal, notes, impl, token, activeTab, jobs>>

\* chrome.scripting.executeScript callback
ExtractScript(c, o) ==
  /\ cap[c].pc = "extractScript"
  /\ LET k == cap[c] IN
     CASE o = "lastError" -> Settle(c, ExtractFail(k, "Cannot access contents of the page"))
       [] o = "empty"     -> Settle(c, ExtractFail(k, IF impl = "staged"
                                                      THEN "Failed to extract HTML content"
                                                      ELSE "Failed to get HTML content"))
       [] o = "null"      -> Settle(c, ExtractOk(k, NullHtml))
       [] o = "result"    -> Settle(c, ExtractOk(k, ExtractedHtml(impl, k.tab[1])))
  /\ UNCHANGED <<doc, portal, notes, impl, token, activeTab, jobs>>

\* a failed pre-parse is thrown out of saveJobOffer, past the fallback
PreparseResponse_NoFallback(c, r, body) ==
  /\ cap[c].pc = "preparse"
  /\ LET k == Answer(cap[c], r) IN
     IF Success(r)
     THEN Settle(c, SendAi([k EXCEPT !.parsed = <<body>>]))
     ELSE Settle(c, Reject([k EXCEPT !.failed = "preparse"],
                           Err(StageError(r, "Error pre-parsing job offer")), "Failed"))
  /\ UNCHANGED <<doc, portal, notes, impl, token, activeTab, jobs>>

\* response of /jobs/preparse-job-offer
PreparseResponse(c, r, body) ==
  /\ cap[c].pc = "preparse"
  /\ LET k == Answer(cap[c], r) IN
     IF Success(r)
     THEN Settle(c, SendAi([k EXCEPT !.parsed = <<body>>]))
     ELSE Settle(c, ToFallback(k, "preparse"))
  /\ UNCHANGED <<doc, portal, notes, impl, token, activeTab, jobs>>

\* a failed enrichment is reported to the user before the fallback is sent
AiResponse_ReportsFailure(c, r, body) ==
  /\ cap[c].pc = "ai"
  /\ LET k == Answer(cap[c], r) IN
     IF Success(r)
     THEN Settle(c, SendSave([k EXCEPT !.enhanced = <<body>>]))
     ELSE Settle(c, ToFallback(ShowMessage(k, "error"), "ai"))
  /\ UNCHANGED <<doc, portal, notes, impl, token, activeTab, jobs>>

\* response of /jobs/parse-job-with-ai
AiResponse(c, r, body) ==
  /\ cap[c].pc = "ai"
  /\ LET k == Answer(cap[c], r) IN
     IF Success(r)
     THEN Settle(c, SendSave([k EXCEPT !.enhanced = <<body>>]))
     ELSE Settle(c, ToFallback(k, "ai"))
  /\ UNCHANGED <<doc, portal, notes, impl, token, activeTab, jobs>>

\* the body of an accepted primary save is returned without await: a body
\* that cannot be read rejects saveJobOffer past its catch block
SaveResponse_NoAwait(c, r) ==
  /\ cap[c].pc = "save"
  /\ LET k == Answer(cap[c], r) IN
     /\ jobs' = BackendStore(r, SaveBody(k), c, "save")
     /\ IF Success(r)
        THEN Settle(c, Resolve(k))
        ELSE IF r.status = "ok"
             THEN Settle(c, Reject([k EXCEPT !.failed = "save"],
                                   Err(StageError(r, "Error saving job offer")), "Failed"))
             ELSE Settle(c, ToFallback(k, "save"))
  /\ UNCHANGED <<doc, portal, notes, impl, token, activeTab>>

\* response of the primary /jobs/save
SaveResponse(c, r) ==
  /\ cap[c].pc = "save"
  /\ LET k == Answer(cap[c], r) IN
     /\ jobs' = BackendStore(r, SaveBody(k), c, "save")
     /\ IF Success(r)
        THEN Settle(c, Resolve(k))
        ELSE Settle(c, ToFallback(k, "save"))
  /\ UNCHANGED <<doc, portal, notes, impl, token, activeTab>>

\* the inner catch rethrows the error of the stage that failed first
FallbackError_OfFailedStage(k, r) ==
  Err(CASE k.failed = "extract"  -> "Failed to extract HTML content"
        [] k.failed = "preparse" -> "Error pre-parsing job offer"
        [] k.failed = "ai"       -> "Error parsing job with AI"
        [] OTHER                 -> "Error saving job offer")

\* the error the fallback save throws for a response r that is no success
FallbackError(k, r) == Err(StageError(r, "Error saving offer"))

\* a failed fallback save is sent once more
FallbackResponse_Retry(c, r) ==
  /\ cap[c].pc = "fallback"
  /\ LET k == Answer(cap[c], r) IN
     /\ jobs' = BackendStore(r, FallbackBody(k), c, "fallback")
     /\ IF Success(r)
        THEN Settle(c, Resolve(k))
        ELSE IF Cardinality({ i \in 1..Len(k.reqs) : k.reqs[i].stage = "fallback" }) < 2
             THEN Settle(c, ToFallback(k, k.failed))
             ELSE Settle(c, Reject(k, FallbackError(k, r), "Failed"))
  /\ UNCHANGED <<doc, portal, notes, impl, token, activeTab>>

\* response of the fallback /jobs/save
FallbackResponse(c, r) ==
  /\ cap[c].pc = "fallback"
  /\ LET k == Answer(cap[c], r) IN
     /\ jobs' = BackendStore(r, FallbackBody(k), c, "fallback")
     /\ IF Success(r)
        THEN Settle(c, Resolve(k))
        ELSE Settle(c, Reject(k, FallbackError(k, r), "Failed"))
  /\ UNCHANGED <<doc, portal, notes, impl, token, activeTab>>

\* a 401 makes the capture remove the stored token
WorkflowResponse_ClearsToken(c, r, d) ==
  /\ cap[c].pc = "workflow"
  /\ LET k == Answer(cap[c], r) IN
     /\ jobs' = BackendStore(r, [title |-> k.title, url |-> k.url, parsed_job_data |-> d],
                             c, "workflow")
     /\ IF Success(r)
        THEN Settle(c, Resolve(k))
        ELSE Settle(c, Reject([k EXCEPT !.failed = "workflow"],
                              Err("Failed to save job offer: "
                                  \o StageError(r, "Failed to save job offer.")), "Failed"))
  /\ token' = IF r.status = "unauthorized" THEN NoToken ELSE token
  /\ UNCHANGED <<doc, portal, notes, impl, activeTab>>

\* response of /jobs/workflow; d is what the backend's own parsing produced
WorkflowResponse(c, r, d) ==
  /\ cap[c].pc = "workflow"
  /\ LET k == Answer(cap[c], r) IN
     /\ jobs' = BackendStore(r, [title |-> k.title, url |-> k.url, parsed_job_data |-> d],
                             c, "workflow")
     /\ IF Success(r)
        THEN Settle(c, Resolve(k))
        ELSE Settle(c, Reject([k EXCEPT !.failed = "workflow"],
                              Err("Failed to save job offer: "
                                  \o StageError(r, "Failed to save job offer.")), "Failed"))
  /\ UNCHANGED <<doc, portal, notes, impl, token, activeTab>>

\* ------------------------------------------------------------ environment
\* the user activates another tab, or no tab is active.  The active tab is
\* read by the two chrome.tabs.query calls only, so a change of tab shows
\* at the next query and is taken while a query is pending
SwitchTab(t) ==
  /\ t # activeTab
  /\ \E c \in Captures : cap[c].pc \in {"tabQuery", "extractQuery"}
  /\ activeTab' = t
  /\ UNCHANGED <<doc, portal, notes, impl, token, btnDisabled, btnText, cap, jobs>>

logout ==
  /\ token # NoToken
  /\ token' = NoToken
  /\ UNCHANGED <<doc, portal, notes, impl, activeTab, btnDisabled, btnText, cap, jobs>>

\* login() succeeded: the token of the response is stored
login(t) ==
  /\ token # t
  /\ token' = t
  /\ UNCHANGED <<doc, portal, notes, impl, activeTab, btnDisabled, btnText, cap, jobs>>

InFlight(c) == cap[c].pc \notin {"idle", "done", "archived"}

\* one capture at a time: the user waits for a capture to end before
\* starting the next one
Next ==
  \/ /\ \A d \in Captures : ~InFlight(d)
     /\ \E c \in Captures, h \in {"home", "homeNoAuth", "shortcut"} : Trigger(c, h)
  \/ \E c \in Captures : HandlerTabQuery(c)
  \/ \E c \in Captures : ExtractTabQuery(c)
  \/ \E c \in Captures, o \in ScriptOutcomes : ExtractScript(c, o)
  \/ \E c \in Captures, r \in Responses, b \in PreParsedBodies : PreparseResponse(c, r, b)
  \/ \E c \in Captures, r \in Responses, b \in EnhancedBodies : AiResponse(c, r, b)
  \/ \E c \in Captures, r \in Responses : SaveResponse(c, r)
  \/ \E c \in Captures, r \in Responses : FallbackResponse(c, r)
  \/ \E c \in Captures, r \in Responses, d \in EnhancedBodies : WorkflowResponse(c, r, d)
  \/ \E t \in TabStates : SwitchTab(t)
  \/ logout
  \/ \E t \in Tokens : login(t)

Spec == Init /\ [][Next]_vars

\* --------------------------------- triggers that do not wait for the end
\* nothing but the home popup's disabled button (the guard of Trigger)
\* keeps the user from triggering again while a capture runs.  Tabs and
\* token stay as they are; requests are answered by a plain success or a
\* plain failure.
PlainResponses ==
  { r \in Responses : r.readable /\ r.detail = "" /\ r.status \in {"ok", "error"} }

OverlapNext ==
  \/ \E c \in Captures, h \in {"home", "homeNoAuth", "shortcut"} : Trigger(c, h)
  \/ \E c \in Captures : HandlerTabQuery(c)
  \/ \E c \in Captures : ExtractTabQuery(c)
  \/ \E c \in Captures, o \in {"empty", "result"} : ExtractScript(c, o)
  \/ \E c \in Captures, r \in PlainResponses, b \in PreParsedBodies : PreparseResponse(c, r, b)
  \/ \E c \in Captures, r \in PlainResponses, b \in EnhancedBodies : AiResponse(c, r, b)
  \/ \E c \in Captures, r \in PlainResponses : SaveResponse(c, r)
  \/ \E c \in Captures, r \in PlainResponses : FallbackResponse(c, r)
  \/ \E c \in Captures, r \in PlainResponses, d \in EnhancedBodies : WorkflowResponse(c, r, d)

SpecOverlap == Init /\ [][OverlapNext]_vars

\* ------------------------------------------------- every call returns
\* captures one at a time, tabs and token as they are, plain answers; each
\* pending callback of chrome.tabs.query and chrome.scripting.executeScript
\* and each pending fetch is eventually answered
LiveNext ==
  \/ /\ \A d \in Captures : ~InFlight(d)
     /\ \E c \in Captures, h \in {"home", "homeNoAuth", "shortcut"} : Trigger(c, h)
  \/ \E c \in Captures : HandlerTabQuery(c)
  \/ \E c \in Captures : ExtractTabQuery(c)
  \/ \E c \in Captures, o \in ScriptOutcomes : ExtractScript(c, o)
  \/ \E c \in Captures, r \in PlainResponses, b \in PreParsedBodies : PreparseResponse(c, r, b)
  \/ \E c \in Captures, r \in PlainResponses, b \in EnhancedBodies : AiResponse(c, r, b)
  \/ \E c \in Captures, r \in PlainResponses : SaveResponse(c, r)
  \/ \E c \in Captures, r \in PlainResponses : FallbackResponse(c, r)
  \/ \E c \in Captures, r \in PlainResponses, d \in EnhancedBodies : WorkflowResponse(c, r, d)

EveryCallReturns ==
  \A c \in Captures :
    /\ WF_vars(ExtractTabQuery(c))
    /\ WF_vars(\E o \in ScriptOutcomes : ExtractScript(c, o))
    /\ WF_vars(\E r \in PlainResponses, b \in PreParsedBodies : PreparseResponse(c, r, b))
    /\ WF_vars(\E r \in PlainResponses, b \in EnhancedBodies : AiResponse(c, r, b))
    /\ WF_vars(\E r \in PlainResponses : SaveResponse(c, r))
    /\ WF_vars(\E r \in PlainResponses : FallbackResponse(c, r))
    /\ WF_vars(\E r \in PlainResponses, d \in EnhancedBodies : WorkflowResponse(c, r, d))

SpecLive == Init /\ [][LiveNext]_vars /\ EveryCallReturns

\* ------------------------------------------- the classifier on its own
\* one URL is drawn and classified; the pipeline stays idle
ClassifyInit ==
  /\ impl = "staged"
  /\ token \in Tokens
  /\ activeTab = <<>>
  /\ btnDisabled = FALSE
  /\ btnText = "Save offer"
  /\ cap = [c \in Captures |-> IdleCapture]
  /\ jobs = <<>>
  /\ portal \in { [url |-> u, kind |-> "none"] : u \in Urls }
  /\ notes = NoNotes
  /\ doc = NoDoc

Classify ==
  /\ portal.kind = "none"
  /\ portal' = [portal EXCEPT !.kind = classify(portal.url)]
  /\ UNCHANGED <<impl, token, activeTab, btnDisabled, btnText, cap, jobs, notes, doc>>

SpecClassify == ClassifyInit /\ [][Classify]_vars

\* ------------------------------------------- the extractor on its own
\* one page is drawn and the injected function runs in it
ExtractInit ==
  /\ impl = "staged"
  /\ token \in Tokens
  /\ activeTab = <<>>
  /\ btnDisabled = FALSE
  /\ btnText = "Save offer"
  /\ cap = [c \in Captures |-> IdleCapture]
  /\ jobs = <<>>
  /\ portal = NoPortal
  /\ notes = NoNotes
  /\ doc \in { [els |-> d, result |-> <<>>] : d \in Documents }

ExtractBlock ==
  /\ doc.result = <<>>
  /\ doc' = [doc EXCEPT !.result = <<extractMainContentBlock(doc.els)>>]
  /\ UNCHANGED <<impl, token, activeTab, btnDisabled, btnText, cap, jobs, portal, notes>>

SpecExtract == ExtractInit /\ [][ExtractBlock]_vars

\* --------------------------------------- the popup page's notifications
\* notes.els lists the message elements created so far, in creation order;
\* an element is attached while it is in the document.  notes.timers holds
\* the armed timeouts; each callback closes over the element it was
\* created for.  removedBy remembers what detached an element.
MessageTypes == {"success", "info", "error"}

Popups == {"home", "homeNoAuth"}

\* the types showMessage arms the auto-dismiss timeout for
AutoDismissed(variant) ==
  IF variant = "home" THEN {"success"} ELSE {"success", "info"}

\* time from the creation of an element to the firing of its timeouts
Delay(kind) ==
  CASE kind = "fadeIn"  -> 10
    [] kind = "dismiss" -> 2000
    [] kind = "remove"  -> 2000 + 300

\* timeouts fire in the order of their deadlines: t is due when no
\* timeout of the same or an older element with no later deadline waits
Due(t) ==
  /\ t \in notes.timers
  /\ \A u \in notes.timers \ {t} :
       ~ (u.el <= t.el /\ Delay(u.kind) <= Delay(t.kind))

NewMessage(type) ==
  [type |-> type, attached |-> TRUE, opacity |-> "0", removedBy |-> "none"]

ArmedFor(variant, type, n) ==
  {[kind |-> "fadeIn", el |-> n]} \cup
  (IF type \in AutoDismissed(variant) THEN {[kind |-> "dismiss", el |-> n]} ELSE {})

NotifyUnchanged ==
  UNCHANGED <<impl, token, activeTab, btnDisabled, btnText, cap, jobs, portal, doc>>

\* the messages already in the document are left there
showMessage_KeepOld(type) ==
  /\ Len(notes.els) < MaxMessages
  /\ notes' = [notes EXCEPT
                 !.els = Append(@, NewMessage(type)),
                 !.timers = @ \cup ArmedFor(notes.variant, type, Len(notes.els) + 1)]
  /\ NotifyUnchanged

showMessage(type) ==
  /\ Len(notes.els) < MaxMessages
  /\ notes' = [notes EXCEPT
                 !.els = Append([i \in 1..Len(@) |->
                                   IF @[i].attached
                                   THEN [@[i] EXCEPT !.attached = FALSE,
                                                     !.removedBy = "showMessage"]
                                   ELSE @[i]],
                                NewMessage(type)),
                 !.timers = @ \cup ArmedFor(notes.variant, type, Len(notes.els) + 1)]
  /\ NotifyUnchanged

\* setTimeout(() => { message.style.opacity = '1'; }, 10)
FadeIn(t) ==
  /\ Due(t) /\ t.kind = "fadeIn"
  /\ notes' = [notes EXCEPT !.els[t.el].opacity = "1", !.timers = @ \ {t}]
  /\ NotifyUnchanged

\* the 2000 ms timeout: hide the message and arm its removal
AutoDismiss(t) ==
  /\ Due(t) /\ t.kind = "dismiss"
  /\ notes' = [notes EXCEPT !.els[t.el].opacity = "0",
                            !.timers = (@ \ {t}) \cup {[kind |-> "remove", el |-> t.el]}]
  /\ NotifyUnchanged

\* setTimeout(() => message.remove(), 300); remove() on an element that
\* is no longer in the document does nothing
DelayedRemove(t) ==
  /\ Due(t) /\ t.kind = "remove"
  /\ notes' = [notes EXCEPT
                 !.els[t.el] = IF @.attached
                               THEN [@ EXCEPT !.attached = FALSE, !.removedBy = "timer"]
                               ELSE @,
                 !.timers = @ \ {t}]
  /\ NotifyUnchanged

NotifyInit ==
  /\ impl = "staged"
  /\ token \in Tokens
  /\ activeTab = <<>>
  /\ btnDisabled = FALSE
  /\ btnText = "Save offer"
  /\ cap = [c \in Captures |-> IdleCapture]
  /\ jobs = <<>>
  /\ portal = NoPortal
  /\ notes \in { [variant |-> v, els |-> <<>>, timers |-> {}] : v \in Popups }
  /\ doc = NoDoc

NotifyNext ==
  \/ \E type \in MessageTypes : showMessage(type)
  \/ \E t \in notes.timers : FadeIn(t)
  \/ \E t \in notes.timers : AutoDismiss(t)
  \/ \E t \in notes.timers : DelayedRemove(t)

SpecNotify == NotifyInit /\ [][NotifyNext]_vars

TypeOK ==
  /\ impl \in {"staged", "workflow"}
  /\ token \in Tokens \cup {NoToken}
  /\ activeTab \in TabStates
  /\ btnDisabled \in BOOLEAN
  /\ \A c \in Captures : cap[c].pc \in {"idle", "tabQuery", "extractQuery", "extractScript",
                                        "preparse", "ai", "save", "fallback", "workflow",
                                        "done", "archived"}

\* ================================================================ claims
\* indices of the JobRecords created for capture c
JobsOf(c) == { i \in 1..Len(jobs) : jobs[i].cap = c }

\* the stages capture c has sent a request for, in order
StagesOf(k) == [i \in 1..Len(k.reqs) |-> k.reqs[i].stage]

\* captures whose handler locals still exist (triggered, not yet archived)
Live == { c \in Captures : cap[c].pc \notin {"idle", "archived"} }

Finished == { c \in Captures : cap[c].pc = "done" }

\* capture c got the response class cl for its request of stage st
Got(c, st, cl) ==
  \E i \in 1..Len(cap[c].reqs) : cap[c].reqs[i].stage = st /\ cap[c].reqs[i].resp = cl

\* C1: a capture that ends successfully has created exactly one JobRecord,
\* and so has a capture whose pre-parse, enrichment or primary save failed
\* and whose fallback save the backend accepted: never zero, never two.
C1_ExactlyOneRecord ==
  \A c \in Finished :
    /\ cap[c].outcome = "resolved" => Cardinality(JobsOf(c)) = 1
    /\ ( /\ cap[c].failed \in {"preparse", "ai", "save"}
         /\ \E i \in JobsOf(c) : jobs[i].via = "fallback" )
       => Cardinality(JobsOf(c)) = 1

\* C2: a capture whose content extraction failed has sent no request to
\* any endpoint and has produced no JobRecord.
C2_ExtractionFailureSendsNothing ==
  \A c \in Live :
    cap[c].failed = "extract" => cap[c].reqs = <<>> /\ JobsOf(c) = {}

\* C3 as stated: a finished capture whose pre-parse failed has produced
\* exactly one JobRecord, with position from the best available title and
\* link equal to the request URL, and has not called the enrichment stage.
C3_PreparseFailureOneRecord ==
  \A c \in Finished :
    cap[c].failed = "preparse" =>
      /\ Cardinality(JobsOf(c)) = 1
      /\ \A i \in JobsOf(c) : /\ jobs[i].position = BestTitle(cap[c].title)
                              /\ jobs[i].link = cap[c].url
      /\ ~\E i \in 1..Len(cap[c].reqs) : cap[c].reqs[i].stage = "ai"

\* C3 amended: after a failed pre-parse the capture sends the fallback save
\* with the request's title and URL and nothing else (no enrichment, no
\* primary save); it produces exactly one JobRecord when the backend
\* accepts the fallback save and none when the fallback save fails too; the
\* record's position is the best available title and its link the URL.
C3_PreparseFailureFallback ==
  \A c \in Live :
    cap[c].failed = "preparse" =>
      /\ StagesOf(cap[c]) = <<"preparse", "fallback">>
      /\ cap[c].reqs[2].body = [title |-> cap[c].title, url |-> cap[c].url]
      /\ Cardinality(JobsOf(c)) <= 1
      /\ cap[c].reqs[2].resp \in {"success", "unreadable"} => Cardinality(JobsOf(c)) = 1
      /\ cap[c].reqs[2].resp \in {"failure", "unauthorized"} => JobsOf(c) = {}
      /\ \A i \in JobsOf(c) : /\ jobs[i].position = BestTitle(cap[c].title)
                              /\ jobs[i].link = cap[c].url

C3_Witness ==
  \E c \in Finished :
    /\ cap[c].failed = "preparse"
    /\ cap[c].outcome = "resolved"
    /\ Cardinality(JobsOf(c)) = 1

\* C4: when enrichment fails after a successful pre-parse, the fallback
\* record's position is the title of the pre-parse result.
C4_FallbackUsesPreParsedTitle ==
  \A c \in Live :
    cap[c].failed = "ai" =>
      \A i \in JobsOf(c) :
        jobs[i].via = "fallback" => jobs[i].position = cap[c].parsed[1].title

\* C5: a capture triggered while no token is stored runs no extraction,
\* sends no request, creates no JobRecord and redirects to the sign-in page.
C5_NoTokenRedirects ==
  \A c \in Finished :
    ~cap[c].hadToken =>
      /\ ~cap[c].extracted
      /\ cap[c].reqs = <<>>
      /\ JobsOf(c) = {}
      /\ cap[c].redirected

\* C6: once a stage's response is unauthorized the capture has ended: it is
\* not in flight any more and no request follows the unauthorized one.
C6_UnauthorizedAborts ==
  \A c \in Live :
    \A i \in 1..Len(cap[c].reqs) :
      cap[c].reqs[i].resp = "unauthorized" => cap[c].pc = "done" /\ i = Len(cap[c].reqs)

\* C7: in the staged pipeline, once extraction succeeded, a capture is
\* Failed only after a fallback save that failed; every failed pre-parse,
\* enrichment or primary save is followed by the fallback save; and a
\* successful primary or fallback save ends the capture in Done.
C7_FailedOnlyAfterFallback ==
  \A c \in Live :
    (impl = "staged" /\ cap[c].extracted) =>
      LET q == cap[c].reqs IN
      /\ cap[c].state = "Failed" =>
           /\ q # <<>>
           /\ q[Len(q)].stage = "fallback"
           /\ q[Len(q)].resp \notin {"pending", "success"}
      /\ \A i \in 1..Len(q) :
           /\ (q[i].stage \in {"preparse", "ai", "save"}
               /\ q[i].resp \notin {"pending", "success"})
              => (i < Len(q) /\ q[i+1].stage = "fallback"
                  /\ cap[c].state \in {"FallbackSaving", "Done", "Failed"})
           /\ (q[i].stage \in {"save", "fallback"} /\ q[i].resp = "success")
              => (i = Len(q) /\ cap[c].state = "Done" /\ cap[c].outcome = "resolved")

C7_Witness ==
  \E c \in Finished :
    /\ impl = "staged"
    /\ cap[c].extracted
    /\ cap[c].failed = "ai"
    /\ cap[c].state = "Failed"

\* C8: two captures of the same page (same URL and title) that both ended
\* in Done have each created a JobRecord of their own for that URL: the
\* backend holds at least two records, the second capture reused none.
C8_NotIdempotent ==
  \A c1 \in Captures, c2 \in Captures :
    ( /\ c1 < c2
      /\ cap[c1].state = "Done" /\ cap[c2].state = "Done"
      /\ cap[c1].url = cap[c2].url /\ cap[c1].title = cap[c2].title )
    => /\ \E i \in JobsOf(c1) : jobs[i].link = cap[c1].url
       /\ \E j \in JobsOf(c2) : jobs[j].link = cap[c2].url
       /\ Cardinality({ i \in 1..Len(jobs) : jobs[i].link = cap[c1].url }) >= 2

C8_Witness ==
  \E c1 \in Captures, c2 \in Captures :
    /\ c1 < c2
    /\ cap[c1].state = "Done" /\ cap[c2].state = "Done"
    /\ cap[c1].url = cap[c2].url /\ cap[c1].title = cap[c2].title
    /\ Len(jobs) = 2

C10_HappyPath ==
  \A c \in Live :
    (Got(c, "preparse", "success") /\ Got(c, "ai", "success") /\ Got(c, "save", "success")) =>
      LET e == cap[c].enhanced[1] IN
      /\ StagesOf(cap[c]) = <<"preparse", "ai", "save">>
      /\ Cardinality(JobsOf(c)) = 1
      /\ \A i \in JobsOf(c) :
           /\ jobs[i].position = (IF e.job_title = Absent THEN "" ELSE e.job_title)
           /\ jobs[i].company = (IF e.company = Absent THEN "" ELSE e.company)
           /\ jobs[i].location = (IF e.location = Absent THEN "" ELSE e.location)
           /\ jobs[i].job_type = (IF e.job_type = Absent THEN "" ELSE e.job_type)
           /\ jobs[i].description = (IF e.description = Absent THEN "" ELSE e.description)
           /\ jobs[i].status = "Saved"
           /\ jobs[i].link = cap[c].url
           /\ jobs[i].notes = ""

C10_Witness ==
  \E c \in Finished :
    /\ Got(c, "preparse", "success") /\ Got(c, "ai", "success") /\ Got(c, "save", "success")
    /\ cap[c].state = "Done"
    /\ \E i \in JobsOf(c) : jobs[i].location = "" /\ jobs[i].company = "Acme"

\* ---------------------------------------------------------------- C11
\* the portal list as the specification gives it
PortalFragments ==
  { <<"l", "i", "n", "k", "e", "d", "i", "n">>,
    <<"i", "n", "d", "e", "e", "d">>,
    <<"g", "l", "a", "s", "s", "d", "o", "o", "r">>,
    <<"m", "o", "n", "s", "t", "e", "r">>,
    <<"z", "i", "p", "r", "e", "c", "r", "u", "i", "t", "e", "r">> }

\* f occurs in s as a contiguous run of characters
Occurs(f, s) == \E i \in 1..Len(s) : \E j \in i..Len(s) : SubSeq(s, i, j) = f

toUpperCase(s) ==
  [i \in 1..Len(s) |->
     IF \E n \in 1..26 : LowerCaseLetters[n] = s[i]
     THEN UpperCaseLetters[CHOOSE n \in 1..26 : LowerCaseLetters[n] = s[i]]
     ELSE s[i]]

\* C11: classify(url) is Known exactly when the lower-cased URL contains
\* one of the fragments linkedin, indeed, glassdoor, monster, ziprecruiter
\* as a substring, and Unknown otherwise; it answers for every URL, and
\* its answer does not change with the letter case of the URL nor with
\* which fragment occurs.
C11_ClassifyBySubstring ==
  portal.kind # "none" =>
    /\ portal.kind \in {"Known", "Unknown"}
    /\ portal.kind = "Known" <=>
         \E f \in PortalFragments : Occurs(f, toLowerCase(portal.url))
    /\ classify(toUpperCase(portal.url)) = portal.kind
    /\ classify(toLowerCase(portal.url)) = portal.kind

\* a URL that is Known only because it is lower-cased before the search,
\* with a fragment that is not the first of the list
C11_Witness ==
  /\ portal.kind = "Known"
  /\ ~ \E f \in PortalFragments : Occurs(f, portal.url)
  /\ ~ Occurs(<<"l", "i", "n", "k", "e", "d", "i", "n">>, toLowerCase(portal.url))

\* ---------------------------------------------------------------- C12
\* C12: the HTML a capture extracts follows the portal kind of its URL:
\* the full serialized document for a Known portal, the heuristically
\* selected sub-block for an Unknown site; the two are never swapped and
\* never applied regardless of the classification.
C12_StrategyByPortalKind ==
  \A c \in Live :
    cap[c].html.kind \in {"full", "block"} =>
      IF classify(CharsOf(cap[c].url)) = "Known"
      THEN cap[c].html.kind = "full"
      ELSE cap[c].html.kind = "block"

\* ---------------------------------------------------------------- C13
\* the message elements that are in the document
Attached == { i \in 1..Len(notes.els) : notes.els[i].attached }

\* a step in which the timeout t fired
Fired(t) ==
  /\ t \in notes.timers
  /\ t \notin notes'.timers
  /\ Len(notes'.els) = Len(notes.els)

\* C13: after any sequence of showMessage calls interleaved with timer
\* firings (fade-in, 2000 ms auto-dismiss, 300 ms delayed removal) at most
\* one notification element is in the document, and if one is, it is the
\* one shown last; a timer armed for an earlier notification never
\* removes or hides a later one.
C13_OneNotification ==
  /\ [](/\ Cardinality(Attached) <= 1
        /\ Attached # {} => Attached = {Len(notes.els)})
  /\ [][\A t \in notes.timers :
          Fired(t) => \A i \in 1..Len(notes.els) :
                        i # t.el => notes'.els[i] = notes.els[i]]_vars

\* a Success message was replaced before its timeouts fired, all of them
\* have fired since, and the message that replaced it is in the document
\* and visible
C13_Witness ==
  /\ Len(notes.els) >= 2
  /\ notes.els[Len(notes.els)].attached
  /\ notes.els[Len(notes.els)].opacity = "1"
  /\ \E i \in 1..(Len(notes.els) - 1) :
       /\ notes.els[i].type = "success"
       /\ notes.els[i].removedBy = "showMessage"
       /\ notes.els[i].opacity = "0"
       /\ ~ \E t \in notes.timers : t.el = i

\* ---------------------------------------------------------------- C14
\* C14: a Success notification is removed by its own timer when nothing
\* replaces it, whereas an Info or Error notification is never removed by
\* a timer: it stays in the document until the next showMessage call.
\* Stated here is the part a finite run decides: no Info or Error message
\* is ever taken out of the document by a timeout.
C14_InfoErrorStay ==
  \A i \in 1..Len(notes.els) :
    notes.els[i].type \in {"info", "error"} => notes.els[i].removedBy # "timer"

\* ---------------------------------------------------------------- C15
\* an Error notification was shown during capture c
ErrorShown(c) == \E i \in 1..Len(cap[c].msgs) : cap[c].msgs[i] = "error"

\* the fallback save of capture c was sent and did not succeed
FallbackFailed(c) ==
  \E i \in 1..Len(cap[c].reqs) :
    cap[c].reqs[i].stage = "fallback" /\ cap[c].reqs[i].resp \notin {"pending", "success"}

\* a pre-parse or enrichment failure of capture c was absorbed by the
\* fallback save, and the handler has run to its end
Absorbed(c) ==
  /\ cap[c].pc = "done"
  /\ cap[c].handler \in {"home", "homeNoAuth"}
  /\ cap[c].failed \in {"preparse", "ai"}
  /\ Got(c, "fallback", "success")

C16_SessionExpiredRedirects ==
  \A c \in Finished :
    ( /\ cap[c].handler = "home"
      /\ cap[c].outcome = "rejected"
      /\ cap[c].reqs # <<>>
      /\ cap[c].reqs[Len(cap[c].reqs)].resp = "unauthorized" ) =>
      /\ cap[c].redirected
      /\ ~ ErrorShown(c)

\* ---------------------------------------------------------------- C17
\* C17: at most one capture is in flight at any time: the trigger is
\* disabled from the moment a capture is triggered until it reaches Done
\* or Failed, so a second click or the keyboard shortcut cannot start an
\* overlapping capture.
C17_AtMostOneInFlight ==
  Cardinality({ c \in Captures : InFlight(c) }) <= 1

\* ---------------------------------------------------------------- C18
\* C18: every backend request sent during a capture (pre-parse,
\* enrichment, primary save, fallback save) carries an Authorization
\* header with the bearer token read from the session store; no request
\* is ever sent with an absent or empty token.
C18_EveryRequestAuthorized ==
  \A c \in Live : \A i \in 1..Len(cap[c].reqs) :
    /\ cap[c].reqs[i].auth # NoToken
    /\ cap[c].reqs[i].auth # ""
    /\ cap[c].reqs[i].auth \in Tokens
    /\ cap[c].reqs[i].auth = cap[c].token

\* all four requests of a capture were sent, the last ones after the
\* token had been removed from the store
C18_Witness ==
  \E c \in Live :
    /\ StagesOf(cap[c]) = <<"preparse", "ai", "save", "fallback">>
    /\ token = NoToken

\* ---------------------------------------------------------------- C19
\* C19: within one capture the backend calls are made in the order
\* pre-parse, enrichment, save: the enrichment request is sent only after
\* a successful pre-parse response and carries that response's parsed
\* result, the primary save is sent only after a successful enrichment
\* response, and a capture that succeeds without the fallback has sent
\* all three, none skipped or reordered.
C19_StageOrder ==
  \A c \in Live :
    LET q == cap[c].reqs IN
    /\ \A i \in 1..Len(q) :
         /\ q[i].stage = "preparse" => i = 1
         /\ q[i].stage = "ai" =>
              /\ i = 2
              /\ q[1].stage = "preparse" /\ q[1].resp = "success"
              /\ cap[c].parsed # <<>>
              /\ q[i].body.parsed_text = cap[c].parsed[1].parsed_text
         /\ q[i].stage = "save" =>
              /\ i = 3
              /\ q[2].stage = "ai" /\ q[2].resp = "success"
    /\ (impl = "staged" /\ cap[c].state = "Done" /\ cap[c].failed = "none") =>
         StagesOf(cap[c]) = <<"preparse", "ai", "save">>

\* the primary save of a staged capture is in flight
C19_Witness ==
  \E c \in Live :
    /\ cap[c].pc = "save"
    /\ StagesOf(cap[c]) = <<"preparse", "ai", "save">>
    /\ cap[c].reqs[2].body.parsed_text = "parsed text"

\* ---------------------------------------------------------------- C20
\* the requests of capture k that went to endpoint ep
SentTo(k, ep) == { i \in 1..Len(k.reqs) : k.reqs[i].ep = ep }

\* C20: no stage is retried: within one capture pre-parse, enrichment and
\* the primary save are each called at most once and the fallback save at
\* most once, so a capture sends at most four backend requests, at most
\* two of them to the save endpoint, and a fallback save is never
\* followed by another request.
C20_NoRetry ==
  \A c \in Live :
    LET q == cap[c].reqs IN
    /\ \A st \in {"preparse", "ai", "save", "fallback", "workflow"} :
         Cardinality({ i \in 1..Len(q) : q[i].stage = st }) <= 1
    /\ Len(q) <= 4
    /\ Cardinality(SentTo(cap[c], "/jobs/save")) <= 2
    /\ \A i \in 1..Len(q) : q[i].stage = "fallback" => i = Len(q)

\* a capture that sent four requests, two of them saves, and ended Failed
C20_Witness ==
  \E c \in Finished :
    /\ Len(cap[c].reqs) = 4
    /\ Cardinality(SentTo(cap[c], "/jobs/save")) = 2
    /\ cap[c].state = "Failed"
    /\ cap[c].reqs[4].resp = "failure"

\* ---------------------------------------------------------------- C21
\* the response classes that are no success: a 2xx whose body cannot be
\* read, and the non-2xx ones
NoSuccess == {"unreadable", "failure", "unauthorized"}

\* C21: a response whose JSON body is malformed is handled exactly like a
\* non-2xx response of the same stage: after either, a pre-parse,
\* enrichment or primary save stage is followed by the fallback save, with
\* title and URL only, and by nothing else; after either, the fallback
\* save (and the consolidated workflow call) ends the capture in Failed
\* with no further request.
C21_MalformedLikeHttpError ==
  \A c \in Live :
    LET q == cap[c].reqs IN
    \A i \in 1..Len(q) :
      q[i].resp \in NoSuccess =>
        IF q[i].stage \in {"preparse", "ai", "save"}
        THEN /\ Len(q) = i + 1
             /\ q[i + 1].stage = "fallback"
             /\ q[i + 1].body = [title |-> cap[c].title, url |-> cap[c].url]
             /\ cap[c].state \in {"FallbackSaving", "Done", "Failed"}
        ELSE /\ Len(q) = i
             /\ cap[c].state = "Failed"
             /\ cap[c].outcome = "rejected"

\* the primary save was accepted with a body that cannot be read, and the
\* fallback save is in flight
C21_Witness ==
  \E c \in Live :
    /\ Got(c, "save", "unreadable")
    /\ cap[c].state = "FallbackSaving"
    /\ cap[c].reqs[Len(cap[c].reqs)].resp = "pending"

\* ---------------------------------------------------------------- C22
\* C22: every state transition of a capture (Idle to Extracting, to
\* PreParsing, to Enhancing, to Saving, to FallbackSaving, to Done or
\* Failed) is accompanied by a notification shown to the user.  Stated for
\* the captures of the home popup: a step that changes the state of a
\* capture shows a message.
C22_EveryTransitionNotified ==
  [][\A c \in Captures :
       ( /\ cap'[c].handler = "home"
         /\ cap'[c].state # cap[c].state
         /\ cap'[c].state \in {"Extracting", "PreParsing", "Enhancing", "Saving",
                               "FallbackSaving", "Done", "Failed"} ) =>
         Len(cap'[c].msgs) > Len(cap[c].msgs)]_vars

\* ---------------------------------------------------------------- C23
\* C23: a capture never changes the stored authentication token: no step
\* of a capture, whatever its outcome, writes the token; the token only
\* changes in the steps of login and logout, which are no steps of a
\* capture.
C23_CaptureKeepsToken ==
  [][(cap' # cap \/ jobs' # jobs \/ btnDisabled' # btnDisabled) => token' = token]_vars

\* a capture ended in Failed on a 401 and the token it used is still stored
C23_Witness ==
  \E c \in Finished :
    /\ cap[c].state = "Failed"
    /\ Got(c, "fallback", "unauthorized")
    /\ token = cap[c].token

\* ---------------------------------------------------------------- C24
\* C24: the token is read at every stage boundary: the request of each
\* stage carries the token that is in the session store when the stage
\* starts, so after a logout or a new login no later stage of a capture
\* in flight sends the old token.
C24_TokenReadAtEveryStage ==
  [][\A c \in Captures :
       Len(cap'[c].reqs) > Len(cap[c].reqs) =>
         cap'[c].reqs[Len(cap'[c].reqs)].auth = token]_vars

\* ---------------------------------------------------------------- C25
\* the selectors whose first match in the page has more than 200
\* characters of trimmed text
QualifyingSelectors(els) ==
  { n \in 1..Len(jobContentSelectors) :
      \E i \in 1..Len(els) :
        /\ Matches(els[i], jobContentSelectors[n])
        /\ \A j \in 1..(i - 1) : ~ Matches(els[j], jobContentSelectors[n])
        /\ els[i].len > 200 }

\* the div, section and article elements with more than 300 characters
LargeBlocks(els) ==
  { i \in 1..Len(els) : els[i].tag \in {"div", "section", "article"} /\ els[i].len > 300 }

\* C25: extractMainContentBlock returns the element matched by the
\* earliest selector of the priority list whose match has trimmed text
\* longer than 200 characters; otherwise the div, section or article with
\* the largest trimmed text length, provided it exceeds 300 characters,
\* the earliest in document order among equals; otherwise the document
\* body.  It returns a result for every page, and a later selector never
\* wins over an earlier qualifying one.
C25_ExtractionRules ==
  doc.result # <<>> =>
    LET els == doc.els
        r == doc.result[1]
        Q == QualifyingSelectors(els)
        B == LargeBlocks(els)
    IN /\ r \in 0..Len(els)
       /\ IF Q # {}
          THEN LET n == CHOOSE m \in Q : \A o \in Q : m <= o IN
               /\ r # 0
               /\ Matches(els[r], jobContentSelectors[n])
               /\ \A j \in 1..(r - 1) : ~ Matches(els[j], jobContentSelectors[n])
          ELSE IF B # {}
               THEN /\ r \in B
                    /\ \A i \in B : els[i].len <= els[r].len
                    /\ \A i \in B : els[i].len = els[r].len => r <= i
               ELSE r = 0

\* no selector qualifies and the two largest blocks are equally long: the
\* first one is returned
C25_Witness ==
  /\ doc.result = <<1>>
  /\ QualifyingSelectors(doc.els) = {}
  /\ \E i \in LargeBlocks(doc.els) : i > 1 /\ doc.els[i].len = doc.els[1].len

\* ---------------------------------------------------------------- C26
\* a capture leaves a stage in which it waits for a call only in a step
\* in which that call returned
LeavesOnlyOnReturn(c) ==
  cap'[c].pc # cap[c].pc =>
    /\ cap[c].pc = "extractQuery" =>
         cap'[c].pc = "extractScript" \/ cap'[c].failed = "extract"
    /\ cap[c].pc = "extractScript" =>
         cap'[c].extracted \/ cap'[c].failed = "extract"
    /\ cap[c].pc \in {"preparse", "ai", "save", "fallback", "workflow"} =>
         cap'[c].reqs[Len(cap[c].reqs)].resp # "pending"

\* C26: no stage has a timeout or cancellation: if every in-page
\* extraction call and every network call eventually returns, every
\* capture that entered Extracting eventually reaches Done or Failed; and
\* a capture leaves the stage it waits in only when the call returns, so
\* a call that never returns keeps it there, with no move to the
\* fallback.
C26_EndsIffCallsReturn ==
  /\ \A c \in Captures :
       (cap[c].state = "Extracting") ~> (cap[c].state \in {"Done", "Failed"})
  /\ [][\A c \in Captures : LeavesOnlyOnReturn(c)]_vars

\* all four requests of a capture were answered and it ended in Failed
C26_Witness ==
  \E c \in Finished :
    /\ cap[c].state = "Failed"
    /\ Len(cap[c].reqs) = 4
    /\ \A i \in 1..4 : cap[c].reqs[i].resp # "pending"

\* ---------------------------------------------------------------- C27
\* C27: the HTML a capture submits comes from the tab whose URL and title
\* form its CaptureRequest, also when the active tab changes between the
\* handler's tab query and the extraction's tab query.
C27_HtmlFromRequestTab ==
  \A c \in Live :
    cap[c].html.kind \in {"full", "block"} => cap[c].html.of = cap[c].url

\* ---------------------------------------------------------------- C28
\* a Success notification was shown during capture c
SuccessShown(c) == \E i \in 1..Len(cap[c].msgs) : cap[c].msgs[i] = "success"

\* C28: the Success notification of a capture is shown only after
\* saveJobOffer has resolved, that is after a save request (primary,
\* fallback or the consolidated workflow call) returned a 2xx response
\* with a readable body; a Success notification therefore implies that a
\* JobRecord of this capture exists on the backend.
C28_SuccessMeansSaved ==
  \A c \in Live :
    SuccessShown(c) =>
      /\ cap[c].outcome = "resolved"
      /\ cap[c].reqs # <<>>
      /\ LET last == cap[c].reqs[Len(cap[c].reqs)] IN
         /\ last.stage \in {"save", "fallback", "workflow"}
         /\ last.resp = "success"
      /\ JobsOf(c) # {}

\* Success shown after the consolidated workflow call was accepted
C28_Witness ==
  \E c \in Live :
    /\ SuccessShown(c)
    /\ Got(c, "workflow", "success")
    /\ JobsOf(c) # {}

\* ---------------------------------------------------------------- C29
\* C29: after every outcome of a capture triggered in the popup (success,
\* error notification, session-expired redirect, early exit for a missing
\* tab) the save button is enabled and carries its original label: it is
\* never left disabled once the capture has finished.
C29_ButtonEndsEnabled ==
  (\A c \in Captures : cap[c].handler = "home" => ~ InFlight(c)) =>
    /\ ~ btnDisabled
    /\ btnText = "Save offer"

\* the popup found no active tab, reported it and returned early
C29_Witness ==
  \E c \in Finished :
    /\ cap[c].handler = "home"
    /\ cap[c].outcome = "none"
    /\ ErrorShown(c)
    /\ ~ btnDisabled
    /\ btnText = "Save offer"

\* ---------------------------------------------------------------- C30
\* C30: when a stage fails and the fallback save fails too, saveJobOffer
\* rejects with the fallback save's error (the detail of its response, or
\* "Error saving offer", or the error of reading or fetching it), which
\* the popup displays; the error of the stage that failed first is not
\* reported.
C30_FallbackErrorReported ==
  \A c \in Finished :
    FallbackFailed(c) =>
      LET last == cap[c].reqs[Len(cap[c].reqs)] IN
      /\ cap[c].outcome = "rejected"
      /\ last.stage = "fallback"
      /\ last.resp = "unauthorized" => cap[c].err = "Invalid token"
      /\ last.resp = "unreadable" => cap[c].err = "Unexpected token in JSON"
      /\ last.resp = "failure" =>
           cap[c].err \in {"Server says no", "Error saving offer",
                           "Unexpected token in JSON", "Failed to fetch"}
      /\ cap[c].handler \in {"home", "homeNoAuth"} => ErrorShown(c)

\* the pre-parse stage failed with a 401 and its detail, the fallback save
\* failed without a detail: the default of the fallback is reported
C30_Witness ==
  \E c \in Finished :
    /\ Got(c, "preparse", "unauthorized")
    /\ Got(c, "fallback", "failure")
    /\ cap[c].err = "Error saving offer"
    /\ ErrorShown(c)

====
